---------------------------- MODULE Spec2Model ----------------------------
(***************************************************************************)
(* Model of the Data Analytics frontend:                                   *)
(*   - the analysis-request pipeline, frontend/src/services/api.ts         *)
(*     (analyzeData, convertToCSV, convertToCSVLocal,                      *)
(*     testBackendConnection) and frontend/src/services/deepseekAnalytics  *)
(*     .ts (analyzeDataWithDeepseek): specification Spec;                  *)
(*   - the CSV encoder, the CSV ingestion path and the cell sanitizer as   *)
(*     computations on bounded inputs: specification SpecPure;             *)
(*   - the upload widget, frontend/src/components/UploadDataset.tsx:       *)
(*     specification SpecUpload;                                           *)
(*   - the page, App.tsx (handleQuery, checkBackendStatus) on top of the   *)
(*     pipeline: specification SpecApp;                                    *)
(*   - the page with several handleQuery and checkBackendStatus            *)
(*     invocations in flight at once, over a backend whose reachability    *)
(*     changes: specifications SpecPage and SpecPageFair.                  *)
(*                                                                         *)
(* Text is modelled as a sequence of one-character strings, so that        *)
(* trimming, joining, quoting and tokenizing are computed, not assumed;    *)
(* messages shown to the user are strings searched by substring.           *)
(***************************************************************************)
EXTENDS Integers, Sequences, FiniteSets, TLC

VARIABLES
    baseURL,          \* api.defaults.baseURL of the shared axios instance
    navigatorOnLine,  \* navigator.onLine, owned by the browser
    call,             \* the analyzeData invocation in progress or last finished
    servedByFallback, \* history: some call got its answer from the fallback
    upload,           \* the UploadDataset component and its processFile run
    pure,             \* a pure function applied step by step to one input
    app,              \* the App component: its state and its handleQuery run
    page              \* the handlers of App in flight, and the backend they reach

vars == <<baseURL, navigatorOnLine, call, servedByFallback, upload, pure, app,
          page>>

\* what the analysis service owns, and what the rest of the page owns
apiVars   == <<baseURL, navigatorOnLine, call, servedByFallback>>
otherVars == <<upload, pure, page>>

-----------------------------------------------------------------------------
(* Text helpers *)

IsSpace(ch) == ch \in {" ", "\t", "\n"}

RECURSIVE TrimStart(_)
TrimStart(s) ==
    IF s = <<>> THEN <<>>
    ELSE IF IsSpace(Head(s)) THEN TrimStart(Tail(s)) ELSE s

RECURSIVE TrimEnd(_)
TrimEnd(s) ==
    IF s = <<>> THEN <<>>
    ELSE IF IsSpace(s[Len(s)]) THEN TrimEnd(SubSeq(s, 1, Len(s) - 1)) ELSE s

\* String.prototype.trim
Trim(s) == TrimEnd(TrimStart(s))

\* cellStr.includes(ch)
Includes(s, ch) == \E i \in 1..Len(s) : s[i] = ch

\* cellStr.replace(/"/g, '""')
RECURSIVE DoubleQuotes(_)
DoubleQuotes(s) ==
    IF s = <<>> THEN <<>>
    ELSE IF Head(s) = "\""
         THEN <<"\"", "\"">> \o DoubleQuotes(Tail(s))
         ELSE <<Head(s)>> \o DoubleQuotes(Tail(s))

\* Array.prototype.join(sep) over an array of texts
RECURSIVE Join(_, _)
Join(parts, sep) ==
    IF parts = <<>> THEN <<>>
    ELSE IF Len(parts) = 1 THEN parts[1]
    ELSE parts[1] \o sep \o Join(Tail(parts), sep)

\* String(n) for a non-negative integer
RECURSIVE NatToText(_)
NatToText(n) ==
    LET d == <<"0", "1", "2", "3", "4", "5", "6", "7", "8", "9">>
    IN  IF n < 10 THEN <<d[n + 1]>>
        ELSE NatToText(n \div 10) \o <<d[(n % 10) + 1]>>

-----------------------------------------------------------------------------
(* Cells and datasets (types.ts FileData: headers: string[], rows: any[][]) *)

NullCell      == [t |-> "null"]
UndefinedCell == [t |-> "undefined"]
StrCell(s)    == [t |-> "string", v |-> s]
NumCell(n)    == [t |-> "number", v |-> n]
BoolCell(b)   == [t |-> "boolean", v |-> b]
ObjCell(json) == [t |-> "object", v |-> json]   \* v is JSON.stringify(cell)

NullData == [tag |-> "null"]
FileData(h, r) == [tag |-> "data", headers |-> h, rows |-> r]

\* typeof cell === 'object' ? JSON.stringify(cell) : String(cell)
CellStr(cell) ==
    CASE cell.t = "object"  -> cell.v
      [] cell.t = "string"  -> cell.v
      [] cell.t = "number"  -> NatToText(cell.v)
      [] cell.t = "boolean" -> IF cell.v THEN <<"t", "r", "u", "e">>
                                         ELSE <<"f", "a", "l", "s", "e">>

\* the callback of row.map in convertToCSVLocal
EncodeCell_CommaOnly(cell) ==
    IF cell.t \in {"null", "undefined"} THEN <<>>
    ELSE LET cellStr == CellStr(cell)
         IN  IF Includes(cellStr, ",")
             THEN <<"\"">> \o DoubleQuotes(cellStr) \o <<"\"">>
             ELSE cellStr
EncodeCell(cell) ==
    IF cell.t \in {"null", "undefined"} THEN <<>>
    ELSE LET cellStr == CellStr(cell)
         IN  IF Includes(cellStr, ",") \/ Includes(cellStr, "\"")
             THEN <<"\"">> \o DoubleQuotes(cellStr) \o <<"\"">>
             ELSE cellStr

EncodeRow(row) == Join([i \in 1..Len(row) |-> EncodeCell(row[i])], <<",">>)

\* convertToCSVLocal(data)
convertToCSVLocal(data) ==
    LET headerRow == Join(data.headers, <<",">>)
        dataRows  == [i \in 1..Len(data.rows) |-> EncodeRow(data.rows[i])]
    IN  Join(<<headerRow>> \o dataRows, <<"\n">>)

-----------------------------------------------------------------------------
(* Endpoints, requests and what the backend may answer *)

Primary  == "http://localhost:8000/api"    \* axios.create baseURL
Fallback == "http://127.0.0.1:8000/api"    \* the alternative backend URL

PathHealth  == "/health"
PathConvert == "/convert-to-csv"
PathAnalyze == "/analyze"

\* a request as issued: the base address is read from api.defaults at issue
Request(path, base) == [path |-> path, base |-> base, res |-> "pending"]

\* formData with its three parts; the file part is a Blob named data.csv
FormData(query, apiKey, fileContent) ==
    [query |-> query, api_key |-> apiKey,
     file |-> [name |-> "data.csv", type |-> "text/csv", content |-> fileContent]]

AnalyzeRequest(base, form) ==
    [path |-> PathAnalyze, base |-> base, res |-> "pending", form |-> form]

\* statuses the switch of analyzeData names
ListedStatuses == {400, 401, 403, 404, 413, 429, 500, 503}
\* every status the modelled backend may answer a failed request with
Statuses == ListedStatuses \cup {502}

\* error.response.data of a failed request: an optional detail text
ErrorBodies ==
    {[x |-> 0], [detail |-> ""], [detail |-> "quota exceeded"]}

NoResponse == [present |-> FALSE]
Response(status, data) == [present |-> TRUE, status |-> status, data |-> data]

\* values thrown inside the try block of analyzeData
AxiosError(code, response) == [axios |-> TRUE, code |-> code, response |-> response]
PlainError(message) == [axios |-> FALSE, message |-> message]

\* axios rejects a status outside 2xx with ERR_BAD_REQUEST (4xx) or
\* ERR_BAD_RESPONSE (5xx)
HttpError(status, data) ==
    AxiosError(IF status < 500 THEN "ERR_BAD_REQUEST" ELSE "ERR_BAD_RESPONSE",
               Response(status, data))

\* response.data of a 2xx answer of /analyze (AnalyticsResponse), or nothing
NoBody == [present |-> FALSE]
AnalyticsResponses ==
    {[present |-> TRUE, answer |-> "a1"],
     [present |-> TRUE, answer |-> "a2",
      visualization |-> [type |-> "bar", data |-> <<[name |-> "A", value |-> 1]>>]]}

AnalyzeOutcomes ==
       {[ok |-> TRUE, data |-> b] : b \in AnalyticsResponses \cup {NoBody}}
  \cup {[ok |-> FALSE, error |-> AxiosError(c, NoResponse)] :
            c \in {"ERR_NETWORK", "ECONNABORTED", "ERR_CANCELED"}}
  \cup {[ok |-> FALSE, error |-> HttpError(st, d)] :
            st \in Statuses, d \in ErrorBodies}

\* a CSV text the backend's /convert-to-csv may produce on its own
ServerCsv == <<"h", "\n", "s">>

\* answers of POST /convert-to-csv: failure, 2xx without csv, 2xx with csv
ConvertOutcomes(data) ==
    {[ok |-> FALSE], [ok |-> TRUE, data |-> [x |-> 0]],
     [ok |-> TRUE, data |-> [csv |-> <<>>]],
     [ok |-> TRUE, data |-> [csv |-> convertToCSVLocal(data)]],
     [ok |-> TRUE, data |-> [csv |-> ServerCsv]]}

-----------------------------------------------------------------------------
(* The error taxonomy: one tag per message analyzeData throws *)

Err(kind) == [kind |-> kind]
ServerMessage(detail) == [kind |-> "ServerMessage", detail |-> detail]
\* status 0 stands for the text 'unknown status'
UnknownFailure(status) == [kind |-> "UnknownFailure", status |-> status]

Pending     == [status |-> "pending"]
Resolved(b) == [status |-> "ok", body |-> b]
Rejected(e) == [status |-> "error", error |-> e]

\* the three guards at the head of analyzeData
PreconditionError(query, data, apiKey) ==
    IF Trim(apiKey) = <<>> THEN Err("MissingCredential")
    ELSE IF Trim(query) = <<>> THEN Err("MissingQuery")
    ELSE IF \/ data.tag = "null"
            \/ "headers" \notin DOMAIN data
            \/ "rows" \notin DOMAIN data
            \/ Len(data.rows) = 0
         THEN Err("InvalidDataset")
         ELSE Err("none")

\* the guards with the query tested before the credential
DeepseekPreconditionError_QueryFirst(query, data, apiKey) ==
    IF Trim(query) = <<>> THEN Err("MissingQuery")
    ELSE IF Trim(apiKey) = <<>> THEN Err("MissingCredential")
    ELSE IF \/ data.tag = "null"
            \/ "headers" \notin DOMAIN data
            \/ "rows" \notin DOMAIN data
            \/ Len(data.rows) = 0
         THEN Err("InvalidDataset")
         ELSE Err("none")

\* the same three guards at the head of analyzeDataWithDeepseek
DeepseekPreconditionError(query, data, apiKey) ==
    IF Trim(apiKey) = <<>> THEN Err("MissingCredential")
    ELSE IF Trim(query) = <<>> THEN Err("MissingQuery")
    ELSE IF \/ data.tag = "null"
            \/ "headers" \notin DOMAIN data
            \/ "rows" \notin DOMAIN data
            \/ Len(data.rows) = 0
         THEN Err("InvalidDataset")
         ELSE Err("none")

\* the switch with the messages of the cases 429 and 413 exchanged
StatusError_Swapped(status) ==
    CASE status = 400 -> Err("InvalidRequest")
      [] status = 401 -> Err("InvalidCredential")
      [] status = 403 -> Err("AccessDenied")
      [] status = 404 -> Err("EndpointNotFound")
      [] status = 429 -> Err("PayloadTooLarge")
      [] status = 413 -> Err("RateLimited")
      [] status = 500 -> Err("ServerError")
      [] status = 503 -> Err("ServiceUnavailable")
      [] OTHER        -> Err("none")

\* the switch over error.response?.status
StatusError(status) ==
    CASE status = 400 -> Err("InvalidRequest")
      [] status = 401 -> Err("InvalidCredential")
      [] status = 403 -> Err("AccessDenied")
      [] status = 404 -> Err("EndpointNotFound")
      [] status = 429 -> Err("RateLimited")
      [] status = 413 -> Err("PayloadTooLarge")
      [] status = 500 -> Err("ServerError")
      [] status = 503 -> Err("ServiceUnavailable")
      [] OTHER        -> Err("none")

\* the catch (healthError) block around the probes: what it throws on
HealthCatch(thrown, onLine) ==
    IF thrown.axios /\ (~onLine \/ thrown.code = "ERR_NETWORK")
    THEN PlainError("Cannot connect to the API")
    ELSE thrown

\* the outer catch (error) block of analyzeData: the error the caller gets
OuterCatch(thrown, onLine) ==
    IF thrown.axios
    THEN IF ~onLine \/ thrown.code = "ERR_NETWORK" THEN Err("BackendUnreachable")
         ELSE IF thrown.code = "ECONNABORTED" THEN Err("Timeout")
         ELSE IF thrown.response.present
                 /\ StatusError(thrown.response.status).kind # "none"
              THEN StatusError(thrown.response.status)
         ELSE IF /\ thrown.response.present
                 /\ "detail" \in DOMAIN thrown.response.data
                 /\ thrown.response.data.detail # ""
              THEN ServerMessage(thrown.response.data.detail)
         ELSE UnknownFailure(IF thrown.response.present
                             THEN thrown.response.status ELSE 0)
    ELSE Err("Unexpected")

-----------------------------------------------------------------------------
(* Ingestion: UploadDataset.tsx, processFile *)

\* the characters of a string literal, as a text
Chars(str) == [i \in 1..Len(str) |-> SubSeq(str, i, i)]

\* String.prototype.endsWith
EndsWith(name, suffix) ==
    /\ Len(name) >= Len(suffix)
    /\ SubSeq(name, Len(name) - Len(suffix) + 1, Len(name)) = suffix

\* a Date cell, the day of January 1970 it falls on
DateCell(day) == [t |-> "date", day |-> day]

\* Date.prototype.toISOString
ToISOString(cell) ==
    Chars("1970-01-") \o (IF cell.day < 10 THEN <<"0">> ELSE <<>>)
        \o NatToText(cell.day) \o Chars("T00:00:00.000Z")

\* the escaping JSON.stringify applies inside a string literal
RECURSIVE JsonEscape(_)
JsonEscape(s) ==
    IF s = <<>> THEN <<>>
    ELSE (IF Head(s) \in {"\"", "\\"} THEN <<"\\", Head(s)>> ELSE <<Head(s)>>)
             \o JsonEscape(Tail(s))

\* JSON.stringify(cell): null gives the text null, a string its quoted
\* literal, an object or an array its JSON text
JsonStringify(cell) ==
    CASE cell.t = "null"   -> Chars("null")
      [] cell.t = "string" -> <<"\"">> \o JsonEscape(cell.v) \o <<"\"">>
      [] OTHER             -> cell.v

\* typeof cell === 'object'
TypeofObject_AlsoString(cell) == cell.t \in {"object", "null", "date", "string"}
TypeofObject(cell) == cell.t \in {"object", "null", "date"}

\* the callback of row.map in the sanitizing step
Sanitize(cell) ==
    IF cell.t = "date" THEN StrCell(ToISOString(cell))
    ELSE IF TypeofObject(cell) THEN StrCell(JsonStringify(cell))
    ELSE cell

\* the callback of row.some in the filtering step
CellHasValue_EmptyTextCounts(cell) ==
    /\ cell.t # "null"
    /\ cell.t # "undefined"
CellHasValue(cell) ==
    /\ cell.t # "null"
    /\ cell.t # "undefined"
    /\ cell # StrCell(<<>>)

\* rows.filter(row => row.some(...))
RECURSIVE FilterRows(_)
FilterRows(rows) ==
    IF rows = <<>> THEN <<>>
    ELSE LET row  == Head(rows)
             keep == \E i \in 1..Len(row) : CellHasValue(row[i])
         IN  (IF keep THEN <<row>> ELSE <<>>) \o FilterRows(Tail(rows))

\* filteredRows.map(row => row.map(...))
SanitizeRows(rows) ==
    [i \in 1..Len(rows) |-> [j \in 1..Len(rows[i]) |-> Sanitize(rows[i][j])]]

\* String.prototype.indexOf(ch, from), 1-based, 0 when there is none
IndexFrom(s, ch, from) ==
    LET hits == {k \in from..Len(s) : s[k] = ch}
    IN  IF hits = {} THEN 0 ELSE CHOOSE k \in hits : \A j \in hits : k <= j

\* the first position at or after from that holds no space
RECURSIVE SkipSpaces(_, _)
SkipSpaces(s, from) ==
    IF from <= Len(s) /\ s[from] = " " THEN SkipSpaces(s, from + 1) ELSE from

\* the content of a quoted field: every doubled quote becomes one quote
RECURSIVE Unescape(_)
Unescape(s) ==
    IF Len(s) < 2 THEN s
    ELSE IF s[1] = "\"" /\ s[2] = "\""
         THEN <<"\"">> \o Unescape(SubSeq(s, 3, Len(s)))
         ELSE <<s[1]>> \o Unescape(Tail(s))

\* the tokenizer's search for the quote that closes a quoted field: a quote
\* at the end of the input or before a delimiter or a newline closes it, a
\* doubled quote is skipped; 0 when the field is never closed
RECURSIVE FindClose(_, _)
FindClose(s, from) ==
    LET p == IndexFrom(s, "\"", from)
    IN  IF p = 0 THEN 0
        ELSE IF p = Len(s) THEN p
        ELSE IF s[p + 1] = "\"" THEN FindClose(s, p + 2)
        ELSE LET k == SkipSpaces(s, p + 1)
             IN  IF k <= Len(s) /\ s[k] \in {",", "\n"} THEN p
                 ELSE FindClose(s, p + 1)

\* the tokenizer at the start of a field (Papa.parse with its defaults:
\* comma, newline, double quote, empty lines kept); row holds the fields of
\* the current line, rows the finished lines
RECURSIVE PapaFields(_, _, _, _)
PapaFields(s, cursor, row, rows) ==
    IF cursor > Len(s) THEN Append(rows, Append(row, <<>>))
    ELSE IF s[cursor] = "\""
    THEN LET p == FindClose(s, cursor + 1)
         IN  IF p = 0
             THEN Append(rows, Append(row, SubSeq(s, cursor + 1, Len(s))))
             ELSE LET value == Unescape(SubSeq(s, cursor + 1, p - 1))
                      k     == SkipSpaces(s, p + 1)
                  IN  IF p = Len(s) THEN Append(rows, Append(row, value))
                      ELSE IF s[k] = ","
                           THEN PapaFields(s, k + 1, Append(row, value), rows)
                           ELSE PapaFields(s, k + 1, <<>>,
                                           Append(rows, Append(row, value)))
    ELSE LET d == IndexFrom(s, ",", cursor)
             n == IndexFrom(s, "\n", cursor)
         IN  IF d # 0 /\ (n = 0 \/ d < n)
             THEN PapaFields(s, d + 1,
                             Append(row, SubSeq(s, cursor, d - 1)), rows)
             ELSE IF n # 0
                  THEN PapaFields(s, n + 1, <<>>,
                           Append(rows, Append(row, SubSeq(s, cursor, n - 1))))
                  ELSE Append(rows, Append(row, SubSeq(s, cursor, Len(s))))

\* results.data of Papa.parse(file, ...): every field is a string; an empty
\* input yields no row
PapaParse(text) ==
    IF text = <<>> THEN <<>>
    ELSE LET lines == PapaFields(text, 1, <<>>, <<>>)
         IN  [i \in 1..Len(lines) |->
                 [j \in 1..Len(lines[i]) |-> StrCell(lines[i][j])]]

\* the text of a header cell (the decoders hand headers over as strings)
HeaderText(cell) == cell.v

\* the body shared by the CSV complete callback and the spreadsheet branch,
\* from the header split to setFileStats: reading headers.length throws a
\* TypeError when the decoder produced no row at all
PostProcess(table) ==
    IF table = <<>>
    THEN [threw |-> TRUE]
    ELSE LET headers == [j \in 1..Len(table[1]) |-> HeaderText(table[1][j])]
             sanitizedRows == SanitizeRows(FilterRows(Tail(table)))
         IN  [threw |-> FALSE,
              fileData |-> FileData(headers, sanitizedRows),
              fileStats |-> [rows |-> Len(sanitizedRows),
                             columns |-> Len(headers)]]

-----------------------------------------------------------------------------
(* Inputs of a submission *)

ApiKeys == {<<>>, <<" ">>, <<"s", "k">>}
Queries == {<<>>, <<" ", " ">>, <<"q">>}

SampleHeaders == <<<<"n">>, <<"v">>>>
SampleRow == <<StrCell(<<"a", ",", "b", "\"", "c">>), NumCell(12)>>

Datasets ==
    {NullData,
     [tag |-> "data", rows |-> <<SampleRow>>],
     [tag |-> "data", headers |-> SampleHeaders],
     FileData(SampleHeaders, <<>>),
     FileData(<<>>, <<SampleRow>>),
     FileData(SampleHeaders, <<SampleRow, <<NullCell, BoolCell(TRUE)>>>>)}

-----------------------------------------------------------------------------
(* The App component (App.tsx): its state and what handleQuery shows *)

\* String.prototype.includes on message texts
HasText(message, word) ==
    \E i \in 1..(Len(message) - Len(word) + 1) :
        SubSeq(message, i, i + Len(word) - 1) = word

\* error.message of what analyzeDataWithDeepseek throws
Message(err) ==
    CASE err.kind = "MissingCredential"  -> "DeepSeek API key is required"
      [] err.kind = "MissingQuery"       -> "Query is required"
      [] err.kind = "InvalidDataset"     -> "Invalid or empty data file"
      [] err.kind = "BackendUnreachable" ->
            "Cannot connect to the API. Please check your internet connection and make sure the backend server is running."
      [] err.kind = "Timeout"            -> "Request timed out. Please try again."
      [] err.kind = "InvalidRequest"     ->
            "Invalid request. Please check your query and data format."
      [] err.kind = "InvalidCredential"  ->
            "Invalid API key. Please check your DeepSeek API key."
      [] err.kind = "AccessDenied"       ->
            "Access denied. Please check your API key permissions."
      [] err.kind = "EndpointNotFound"   ->
            "API endpoint not found. Please check if the backend server is running correctly."
      [] err.kind = "RateLimited"        ->
            "Too many requests. Please wait a moment and try again."
      [] err.kind = "PayloadTooLarge"    ->
            "Data file is too large. Please try a smaller file."
      [] err.kind = "ServerError"        -> "Server error. Please try again later."
      [] err.kind = "ServiceUnavailable" ->
            "Service temporarily unavailable. Please try again later."
      [] err.kind = "ServerMessage"      -> "API Error: " \o err.detail
      [] err.kind = "UnknownFailure"     ->
            "Request failed ("
                \o (IF err.status = 0 THEN "unknown status" ELSE ToString(err.status))
                \o "). Please try again."
      [] err.kind = "Unexpected"         ->
            "An unexpected error occurred. Please try again."

NoFile        == "Please upload a file first"
NoApiKey      == "Please enter your DeepSeek API key"
CannotConnect ==
    "Cannot connect to the backend server. Please make sure the backend is running."
TimedOut ==
    "Request timed out. The analysis may be taking too long or the server is overloaded."
TooLarge ==
    "The dataset is too large for processing. Please try one of the following:\n"
        \o "1. Use a more specific query that focuses on fewer columns\n"
        \o "2. Reduce your dataset size before uploading\n"
        \o "3. Try analyzing a subset of your data"

\* the first test of the catch block of handleQuery
LooksLikeNetwork_NoConnectionWord(message, onLine) ==
    \/ HasText(message, "network")
    \/ HasText(message, "ECONNREFUSED")
    \/ HasText(message, "ENOTFOUND")
    \/ ~onLine
LooksLikeNetwork(message, onLine) ==
    \/ HasText(message, "network")
    \/ HasText(message, "ECONNREFUSED")
    \/ HasText(message, "ENOTFOUND")
    \/ HasText(message, "Connection")
    \/ ~onLine

\* App before it is mounted: the useState defaults (null is written "" for
\* error, NullData for fileData, NoBody for result); last is the record of
\* the handleQuery run that ended last
NoRun == [ended |-> FALSE]
IdleApp ==
    [fileData |-> NullData, apiKey |-> <<>>, isLoading |-> FALSE,
     result |-> NoBody, error |-> "", currentQuery |-> <<>>,
     backendStatus |-> "checking", pc |-> "idle", query |-> <<>>,
     statusAtSubmit |-> "checking", preprobe |-> <<>>, last |-> NoRun]

\* no handler of App in flight, the backend reachable on both addresses;
\* runs are the handleQuery invocations, probing and fetching count the
\* checkBackendStatus invocations waiting for testBackendConnection (by the
\* address it went to) and for the fetch of the alternative address; up is
\* the set of addresses on which GET /health succeeds now, and settled says
\* that up will not change any more
IdlePage ==
    [runs |-> <<>>,
     probing |-> [b \in {Primary, Fallback} |-> 0],
     fetching |-> 0,
     up |-> {Primary, Fallback},
     settled |-> FALSE]

\* the record of a handleQuery run: what the call settled with (Pending when
\* analyzeData was never called), the probes handleQuery made itself, the
\* message it showed, navigator.onLine and the status before and after
Run(a, settled, status, shown, onLine) ==
    [ended |-> TRUE, settled |-> settled, preprobe |-> a.preprobe,
     shown |-> shown, onLine |-> onLine,
     statusAtSubmit |-> a.statusAtSubmit, statusBefore |-> a.backendStatus,
     statusAfter |-> status]

\* handleQuery after await analyzeDataWithDeepseek: setResult, or the catch
\* block, and the finally block
Settled(a, result, onLine) ==
    LET shown ==
          IF result.status = "ok" THEN a.error
          ELSE LET message == Message(result.error)
               IN  IF LooksLikeNetwork(message, onLine) THEN CannotConnect
                   ELSE IF HasText(message, "timeout") THEN TimedOut
                   ELSE IF \/ HasText(message, "maximum context length")
                           \/ HasText(message, "token limit")
                        THEN TooLarge
                   ELSE message
        status ==
          IF result.status # "ok" /\ LooksLikeNetwork(Message(result.error), onLine)
          THEN "offline" ELSE a.backendStatus
    IN  [a EXCEPT !.result = IF result.status = "ok" THEN result.body ELSE @,
                  !.error = shown,
                  !.backendStatus = status,
                  !.isLoading = FALSE,
                  !.pc = "idle",
                  !.last = Run(a, result, status, shown, onLine)]

\* the continuation of handleQuery runs as soon as analyzeData has settled
AppContinues ==
    app' = IF app.pc = "calling" /\ call'.pc = "done"
           THEN Settled(app, call'.result, navigatorOnLine)
           ELSE app

-----------------------------------------------------------------------------
(* The state machine of analyzeData *)

\* the upload widget before any file: useState defaults of UploadDataset
\* (null is written "" for fileName and error, hasStats tells fileStats from
\* null); log is the history of the processFile calls
IdleUpload ==
    [isUploading |-> FALSE, uploadStatus |-> "idle", fileName |-> "",
     fileStats |-> [rows |-> 0, columns |-> 0], hasStats |-> FALSE,
     error |-> "", log |-> <<>>]

\* no codec or sanitizer computation under way
IdlePure == [pc |-> "idle"]

IdleCall ==
    [pc |-> "idle", query |-> <<>>, data |-> NullData, apiKey |-> <<>>,
     fileContent |-> <<>>, reqs |-> <<>>, result |-> Pending,
     startBase |-> Primary, afterFallback |-> FALSE,
     fallbackProbedOk |-> FALSE,
     convertOutcome |-> [ok |-> FALSE],
     outcome |-> [ok |-> TRUE, data |-> NoBody], onLineAtCatch |-> TRUE]

Init ==
    /\ baseURL = Primary
    /\ navigatorOnLine = TRUE
    /\ call = IdleCall
    /\ servedByFallback = FALSE
    /\ upload = IdleUpload
    /\ pure = IdlePure
    /\ app = IdleApp
    /\ page = IdlePage

\* the positions of the requests a call sent to a path
Sent(reqs, path) == {i \in 1..Len(reqs) : reqs[i].path = path}

\* the answer to the request issued last
Answered(reqs, ok) ==
    [reqs EXCEPT ![Len(reqs)].res = IF ok THEN "ok" ELSE "fail"]

\* analyzeData(query, data, apiKey), called directly or through
\* analyzeDataWithDeepseek (which rethrows what analyzeData throws), up to
\* its first await: the guards, then the POST /convert-to-csv that
\* convertToCSV issues
SubmitCall(query, data, apiKey, direct) ==
    /\ call.pc \in {"idle", "done"}
    /\ LET e1 == DeepseekPreconditionError(query, data, apiKey)
           e2 == PreconditionError(query, data, apiKey)
           e  == IF ~direct /\ e1.kind # "none" THEN e1 ELSE e2
           c0 == [IdleCall EXCEPT !.query = query, !.data = data,
                                  !.apiKey = apiKey, !.startBase = baseURL,
                                  !.afterFallback = servedByFallback,
                                  !.fallbackProbedOk = call.fallbackProbedOk]
       IN  call' = IF e.kind # "none"
                   THEN [c0 EXCEPT !.pc = "done", !.result = Rejected(e)]
                   ELSE [c0 EXCEPT !.pc = "convert",
                                   !.reqs = <<Request(PathConvert, baseURL)>>]
    /\ UNCHANGED <<baseURL, navigatorOnLine, servedByFallback>>
    /\ UNCHANGED otherVars

\* a submit that starts every call from the primary address again
Submit_ResetBase(query, data, apiKey, direct) ==
    /\ call.pc \in {"idle", "done"}
    /\ LET e1 == DeepseekPreconditionError(query, data, apiKey)
           e2 == PreconditionError(query, data, apiKey)
           e  == IF ~direct /\ e1.kind # "none" THEN e1 ELSE e2
           c0 == [IdleCall EXCEPT !.query = query, !.data = data,
                                  !.apiKey = apiKey, !.startBase = baseURL,
                                  !.afterFallback = servedByFallback,
                                  !.fallbackProbedOk = call.fallbackProbedOk]
       IN  call' = IF e.kind # "none"
                   THEN [c0 EXCEPT !.pc = "done", !.result = Rejected(e)]
                   ELSE [c0 EXCEPT !.pc = "convert",
                                   !.reqs = <<Request(PathConvert, Primary)>>]
    /\ baseURL' = IF PreconditionError(query, data, apiKey).kind = "none"
                  THEN Primary ELSE baseURL
    /\ UNCHANGED <<navigatorOnLine, servedByFallback>>
    /\ UNCHANGED otherVars
    /\ AppContinues

\* a call of analyzeData from outside handleQuery
Submit(query, data, apiKey, direct) ==
    /\ SubmitCall(query, data, apiKey, direct)
    /\ AppContinues

\* convertToCSV taking any csv field of a 2xx answer, an empty one included
ConvertResponse_AnyCsv ==
    /\ call.pc = "convert"
    /\ \E out \in ConvertOutcomes(call.data) :
         LET useBackend == out.ok /\ "csv" \in DOMAIN out.data
             content == IF useBackend THEN out.data.csv
                        ELSE convertToCSVLocal(call.data)
         IN  call' = [call EXCEPT
                        !.convertOutcome = out,
                        !.fileContent = content,
                        !.reqs = Append(Answered(call.reqs, out.ok),
                                        Request(PathHealth, baseURL)),
                        !.pc = "probe1"]
    /\ UNCHANGED <<baseURL, navigatorOnLine, servedByFallback>>
    /\ UNCHANGED otherVars
    /\ AppContinues

\* convertToCSV after its await: the backend's csv or the local fallback;
\* then testBackendConnection issues GET /health
ConvertResponse ==
    /\ call.pc = "convert"
    /\ \E out \in ConvertOutcomes(call.data) :
         LET useBackend == /\ out.ok
                           /\ "csv" \in DOMAIN out.data
                           /\ out.data.csv # <<>>
             content == IF useBackend THEN out.data.csv
                        ELSE convertToCSVLocal(call.data)
         IN  call' = [call EXCEPT
                        !.convertOutcome = out,
                        !.fileContent = content,
                        !.reqs = Append(Answered(call.reqs, out.ok),
                                        Request(PathHealth, baseURL)),
                        !.pc = "probe1"]
    /\ UNCHANGED <<baseURL, navigatorOnLine, servedByFallback>>
    /\ UNCHANGED otherVars
    /\ AppContinues

\* the send: api.post('/analyze', formData) against the active base address
IssueAnalyze(c, reqs) ==
    [c EXCEPT !.reqs = Append(reqs,
                  AnalyzeRequest(baseURL,
                      FormData(c.query, c.apiKey, c.fileContent))),
              !.pc = "send"]

\* what GET /health may end with: 2xx, no answer, a timeout, an error status
HealthOutcomes ==
    {[ok |-> TRUE],
     [ok |-> FALSE, error |-> AxiosError("ERR_NETWORK", NoResponse)],
     [ok |-> FALSE, error |-> AxiosError("ECONNABORTED", NoResponse)],
     [ok |-> FALSE, error |-> HttpError(503, [x |-> 0])]}

\* testBackendConnection(): what its promise settles with, given how the
\* health request ended
testBackendConnection_RethrowStatus(out) ==
    IF out.ok THEN Resolved(TRUE)
    ELSE IF out.error.response.present THEN Rejected(out.error)
    ELSE Resolved(FALSE)
testBackendConnection(out) ==
    IF out.ok THEN Resolved(TRUE) ELSE Resolved(FALSE)

\* the probe issued last has settled: how its request ended and what
\* testBackendConnection made of it
Probed(reqs, out, r) ==
    [reqs EXCEPT ![Len(reqs)] =
        [path |-> @.path, base |-> @.base, succeeded |-> out.ok,
         res |-> IF r.status = "error" THEN "threw"
                 ELSE IF r.body THEN "ok" ELSE "fail"]]

\* catch (healthError) for something a probe threw, then the outer catch
ProbeThrew(c, reqs, thrown) ==
    [c EXCEPT !.reqs = reqs,
              !.result = Rejected(OuterCatch(HealthCatch(thrown, navigatorOnLine),
                                             navigatorOnLine)),
              !.onLineAtCatch = navigatorOnLine,
              !.pc = "done"]

\* history kept with the call: some probe of the fallback address has
\* returned true, in this call or in an earlier one; reqs ends with the
\* probe that has just settled
Noted(c, reqs) ==
    [c EXCEPT !.fallbackProbedOk =
        @ \/ (reqs[Len(reqs)].base = Fallback /\ reqs[Len(reqs)].res = "ok")]

\* the first testBackendConnection settles
HealthResponse1(out) ==
    /\ call.pc = "probe1"
    /\ LET r    == testBackendConnection(out)
           reqs == Probed(call.reqs, out, r)
       IN  IF r.status = "error"
           THEN /\ call' = ProbeThrew(call, reqs, r.error)
                /\ UNCHANGED baseURL
           ELSE IF r.body
           THEN /\ call' = Noted(IssueAnalyze(call, reqs), reqs)
                /\ UNCHANGED baseURL
           ELSE /\ baseURL' = Fallback
                /\ call' = [call EXCEPT
                              !.reqs = Append(reqs, Request(PathHealth, Fallback)),
                              !.pc = "probe2"]
    /\ UNCHANGED <<navigatorOnLine, servedByFallback>>
    /\ UNCHANGED otherVars
    /\ AppContinues

\* a second probe whose failure does not stop the send
HealthResponse2_SendAnyway(out) ==
    /\ call.pc = "probe2"
    /\ LET reqs == Probed(call.reqs, out, testBackendConnection(out))
       IN  call' = Noted(IssueAnalyze(call, reqs), reqs)
    /\ UNCHANGED <<baseURL, navigatorOnLine, servedByFallback>>
    /\ UNCHANGED otherVars
    /\ AppContinues

\* the second testBackendConnection settles
HealthResponse2(out) ==
    /\ call.pc = "probe2"
    /\ LET r    == testBackendConnection(out)
           reqs == Probed(call.reqs, out, r)
       IN  IF r.status = "error"
           THEN call' = ProbeThrew(call, reqs, r.error)
           ELSE IF r.body
           THEN call' = Noted(IssueAnalyze(call, reqs), reqs)
           ELSE LET thrown == HealthCatch(
                              PlainError("Cannot connect to the backend API"),
                              navigatorOnLine)
                IN  call' = [call EXCEPT
                           !.reqs = reqs,
                           !.result = Rejected(OuterCatch(thrown, navigatorOnLine)),
                           !.onLineAtCatch = navigatorOnLine,
                           !.pc = "done"]
    /\ UNCHANGED <<baseURL, navigatorOnLine, servedByFallback>>
    /\ UNCHANGED otherVars
    /\ AppContinues

\* what analyzeData settles with once the POST /analyze has settled
AnalyzeResult(out, onLine) ==
    IF out.ok
    THEN IF ~out.data.present
         THEN Rejected(OuterCatch(PlainError("No data received from the API"),
                                  onLine))
         ELSE Resolved(out.data)
    ELSE Rejected(OuterCatch(out.error, onLine))

\* a send that is repeated once when the first attempt fails
AnalyzeResponse_Retry(out) ==
    /\ call.pc = "send"
    /\ IF ~out.ok /\ Cardinality(Sent(call.reqs, PathAnalyze)) < 2
       THEN /\ call' = IssueAnalyze(call, Answered(call.reqs, FALSE))
            /\ UNCHANGED servedByFallback
       ELSE /\ call' = [call EXCEPT
                          !.reqs = Answered(call.reqs, out.ok),
                          !.outcome = out,
                          !.onLineAtCatch = navigatorOnLine,
                          !.result = AnalyzeResult(out, navigatorOnLine),
                          !.pc = "done"]
            /\ servedByFallback' =
                  (servedByFallback
                     \/ (AnalyzeResult(out, navigatorOnLine).status = "ok"
                           /\ call.reqs[Len(call.reqs)].base = Fallback))
    /\ UNCHANGED <<baseURL, navigatorOnLine>>
    /\ UNCHANGED otherVars
    /\ AppContinues

\* the POST /analyze settles
AnalyzeResponse(out) ==
    /\ call.pc = "send"
    /\ call' = [call EXCEPT
                  !.reqs = Answered(call.reqs, out.ok),
                  !.outcome = out,
                  !.onLineAtCatch = navigatorOnLine,
                  !.result = AnalyzeResult(out, navigatorOnLine),
                  !.pc = "done"]
    /\ servedByFallback' =
          (servedByFallback
             \/ (AnalyzeResult(out, navigatorOnLine).status = "ok"
                   /\ call.reqs[Len(call.reqs)].base = Fallback))
    /\ UNCHANGED <<baseURL, navigatorOnLine>>
    /\ UNCHANGED otherVars
    /\ AppContinues

\* the browser goes offline or online
ConnectivityChange ==
    /\ navigatorOnLine' = ~navigatorOnLine
    /\ UNCHANGED <<baseURL, call, servedByFallback>>
    /\ UNCHANGED otherVars
    /\ UNCHANGED app

Next ==
    \/ \E q \in Queries, d \in Datasets, k \in ApiKeys, direct \in BOOLEAN :
          Submit(q, d, k, direct)
    \/ ConvertResponse
    \/ \E out \in HealthOutcomes : HealthResponse1(out)
    \/ \E out \in HealthOutcomes : HealthResponse2(out)
    \/ \E out \in AnalyzeOutcomes : AnalyzeResponse(out)
    \/ ConnectivityChange

Spec == Init /\ [][Next]_vars

-----------------------------------------------------------------------------
(* The codec and the sanitizer as computations on bounded inputs:          *)
(* convertToCSVLocal followed by the CSV ingestion path, and the cell      *)
(* sanitizer applied once and twice                                        *)

\* the longest generated cell text
MaxLen == 2

Alphabet == {"a", ",", "\""}
Texts == UNION {[1..n -> Alphabet] : n \in 0..MaxLen}

\* string, number, boolean, null and undefined cells
ScalarCells ==
    {StrCell(s) : s \in Texts \cup {Chars("plain"), Chars("a,b\"c")}}
        \cup {NumCell(0), NumCell(12), BoolCell(TRUE), BoolCell(FALSE),
              NullCell, UndefinedCell}

\* nested objects and arrays, by their JSON text
ObjectCells ==
    {ObjCell(Chars("{\"k\":1}")), ObjCell(Chars("[1,2]")), ObjCell(Chars("{}"))}

DateCells == {DateCell(3), DateCell(17)}

\* what a decoder may hand to the sanitizer
RawCells == ScalarCells \cup ObjectCells \cup DateCells

CodecHeaders ==
    {<<Chars("h")>>, <<Chars("h"), Chars("k")>>, <<Chars("a,b")>>, <<>>}

SecondCells == {StrCell(<<>>), StrCell(<<"a">>), NullCell}

CodecRows ==
    LET cells == ScalarCells \cup ObjectCells
    IN  {<<c>> : c \in cells} \cup {<<c, d>> : c \in cells, d \in SecondCells}

TailRows == {<<StrCell(<<>>)>>, <<StrCell(<<"a">>), NumCell(0)>>}

CodecDatasets ==
    {FileData(h, rows) :
        h \in CodecHeaders,
        rows \in {<<>>} \cup {<<r>> : r \in CodecRows}
                     \cup {<<r, t>> : r \in CodecRows, t \in TailRows}}

PureJobs ==
    {[pc |-> "input", kind |-> "codec", data |-> d] : d \in CodecDatasets}
        \cup {[pc |-> "input", kind |-> "cell", x |-> x] : x \in RawCells}

InitPure ==
    /\ baseURL = Primary
    /\ navigatorOnLine = TRUE
    /\ call = IdleCall
    /\ servedByFallback = FALSE
    /\ upload = IdleUpload
    /\ pure \in PureJobs
    /\ app = IdleApp
    /\ page = IdlePage

\* convertToCSVLocal(data)
Encode ==
    /\ pure.pc = "input"
    /\ pure.kind = "codec"
    /\ pure' = [pc |-> "encoded", kind |-> "codec", data |-> pure.data,
                text |-> convertToCSVLocal(pure.data)]
    /\ UNCHANGED <<apiVars, upload, app, page>>

\* the text read back as a .csv file: Papa.parse and the complete callback
ParseBack ==
    /\ pure.pc = "encoded"
    /\ pure' = [pc |-> "parsed", kind |-> "codec", data |-> pure.data,
                text |-> pure.text,
                back |-> PostProcess(PapaParse(pure.text))]
    /\ UNCHANGED <<apiVars, upload, app, page>>

\* the sanitizer applied to a raw cell
SanitizeOnce ==
    /\ pure.pc = "input"
    /\ pure.kind = "cell"
    /\ pure' = [pc |-> "once", kind |-> "cell", x |-> pure.x,
                once |-> Sanitize(pure.x)]
    /\ UNCHANGED <<apiVars, upload, app, page>>

\* the sanitizer applied to its own output
SanitizeTwice ==
    /\ pure.pc = "once"
    /\ pure' = [pc |-> "twice", kind |-> "cell", x |-> pure.x,
                once |-> pure.once, twice |-> Sanitize(pure.once)]
    /\ UNCHANGED <<apiVars, upload, app, page>>

NextPure == Encode \/ ParseBack \/ SanitizeOnce \/ SanitizeTwice

SpecPure == InitPure /\ [][NextPure]_vars

-----------------------------------------------------------------------------
(* Vocabulary of the properties *)

Blank(s) == \A i \in 1..Len(s) : IsSpace(s[i])

Started == call.pc # "idle"
Done == call.pc = "done"

\* the call has issued its POST /analyze
AnalyzeSent == Sent(call.reqs, PathAnalyze) # {}

\* both probes of the call failed, the second one against the fallback
BothProbesFailed ==
    /\ Len(call.reqs) = 3
    /\ call.reqs[2].path = PathHealth /\ call.reqs[2].res = "fail"
    /\ call.reqs[3].path = PathHealth /\ call.reqs[3].res = "fail"
    /\ call.reqs[3].base = Fallback

\* the POST /analyze of the call has settled
AnalyzeSettled == Done /\ AnalyzeSent

-----------------------------------------------------------------------------
(* C1: when the probe of the active endpoint and the probe of the fallback *)
(* both fail, the error submit returns is BackendUnreachable.              *)
C1_BothProbesFailUnreachable ==
    (Done /\ BothProbesFailed)
        => call.result = Rejected(Err("BackendUnreachable"))

(* C2, as claimed: no request other than a health probe is sent before a   *)
(* probe of the same call has succeeded; so /analyze comes after a         *)
(* successful probe and nothing but probes is sent when both probes fail.  *)
C2_OnlyProbesBeforeProbeSuccess ==
    \A i \in 1..Len(call.reqs) :
        call.reqs[i].path # PathHealth
            => \E j \in 1..(i - 1) : /\ call.reqs[j].path = PathHealth
                                    /\ call.reqs[j].res = "ok"

PathRank(path) ==
    CASE path = PathConvert -> 1
      [] path = PathHealth  -> 2
      [] path = PathAnalyze -> 3

(* C2, amended: the requests of one call are issued in the order convert,  *)
(* probe(s), send; POST /analyze is issued only after a probe of the same  *)
(* call succeeded; the one request that precedes the probes is the single  *)
(* POST /convert-to-csv of the encode step, so when both probes fail the   *)
(* call has sent that request and the two probes, and no /analyze.         *)
C2_OrderEncodeProbeSend ==
    /\ \A i, j \in 1..Len(call.reqs) :
          i < j => PathRank(call.reqs[i].path) <= PathRank(call.reqs[j].path)
    /\ \A i \in Sent(call.reqs, PathAnalyze) :
          \E j \in 1..(i - 1) : /\ call.reqs[j].path = PathHealth
                                /\ call.reqs[j].res = "ok"
    /\ Sent(call.reqs, PathConvert) \subseteq {1}
    /\ BothProbesFailed => ~AnalyzeSent

C2_Witness ==
    /\ Len(call.reqs) = 4
    /\ call.reqs[2].res = "fail"
    /\ call.reqs[3].res = "ok"
    /\ call.reqs[4].path = PathAnalyze

\* every request of the call to the primary failed, every one to the
\* fallback succeeded, and /analyze answered with a well-formed body
PrimaryDownFallbackUp ==
    /\ call.reqs # <<>>
    /\ \A i \in 1..Len(call.reqs) :
          call.reqs[i].res = IF call.reqs[i].base = Primary THEN "fail" ELSE "ok"
    /\ AnalyzeSent => call.outcome.ok /\ call.outcome.data.present

(* C3: with the primary always failing and the fallback always succeeding, *)
(* a submit with valid inputs ends successfully with /analyze sent to the  *)
(* fallback; from then on the active endpoint is the fallback and the      *)
(* first probe of every later submit goes to the fallback.                 *)
C3_ProbeFallback ==
    /\ (Done /\ PrimaryDownFallbackUp)
          => /\ call.result.status = "ok"
             /\ call.reqs[Len(call.reqs)].path = PathAnalyze
             /\ call.reqs[Len(call.reqs)].base = Fallback
    /\ servedByFallback => baseURL = Fallback
    /\ (call.afterFallback /\ Len(call.reqs) >= 2)
          => /\ call.reqs[2].path = PathHealth
             /\ call.reqs[2].base = Fallback

C3_Witness ==
    /\ Done /\ PrimaryDownFallbackUp
    /\ call.afterFallback
    /\ call.result.status = "ok"

(* C4: a failed probe or request against the fallback, made while the      *)
(* fallback is the active endpoint, makes the active endpoint stop being   *)
(* the fallback.                                                           *)
C4_FailureInvalidatesFallback ==
    (/\ call.reqs # <<>>
     /\ call.reqs[Len(call.reqs)].base = Fallback
     /\ call.reqs[Len(call.reqs)].res = "fail")
        => baseURL # Fallback

-----------------------------------------------------------------------------
\* the table of the claim for the eight statuses it lists
TableStatus(status) ==
    CASE status = 400 -> Err("InvalidRequest")
      [] status = 401 -> Err("InvalidCredential")
      [] status = 403 -> Err("AccessDenied")
      [] status = 404 -> Err("EndpointNotFound")
      [] status = 413 -> Err("PayloadTooLarge")
      [] status = 429 -> Err("RateLimited")
      [] status = 500 -> Err("ServerError")
      [] status = 503 -> Err("ServiceUnavailable")

\* the whole table, for a failure that carries the axios error err; a body
\* has a detail when its detail text is non-empty
TableError(err) ==
    IF ~err.response.present
    THEN CASE err.code = "ERR_NETWORK"  -> Err("BackendUnreachable")
           [] err.code = "ECONNABORTED" -> Err("Timeout")
           [] OTHER                     -> UnknownFailure(0)
    ELSE IF err.response.status \in ListedStatuses
         THEN TableStatus(err.response.status)
         ELSE IF "detail" \in DOMAIN err.response.data
                 /\ err.response.data.detail # ""
              THEN ServerMessage(err.response.data.detail)
              ELSE UnknownFailure(err.response.status)

AnalyzeFailed == AnalyzeSettled /\ ~call.outcome.ok

\* a listed status got the error of no other listed status
ListedStatusesDistinct ==
    \A s1, s2 \in ListedStatuses :
        (/\ s1 # s2
         /\ AnalyzeFailed /\ call.onLineAtCatch
         /\ call.outcome.error.response.present
         /\ call.outcome.error.response.status = s1)
            => call.result.error # TableStatus(s2)

(* C5, as claimed: the error of every failed /analyze request is the one   *)
(* the table gives for the failure (no response, timeout, status, detail), *)
(* and the eight listed statuses map to eight different errors.            *)
C5_ErrorTable ==
    /\ AnalyzeFailed => call.result = Rejected(TableError(call.outcome.error))
    /\ ListedStatusesDistinct

(* C5, amended: while navigator.onLine is true the error of a failed       *)
(* /analyze request is the one the table gives (a detail counting when it  *)
(* is non-empty); while navigator.onLine is false every failed /analyze    *)
(* request yields BackendUnreachable, whatever its status. The eight       *)
(* listed statuses map to eight different errors.                          *)
C5_ErrorTableOnline ==
    /\ AnalyzeFailed
          => call.result =
                Rejected(IF call.onLineAtCatch
                         THEN TableError(call.outcome.error)
                         ELSE Err("BackendUnreachable"))
    /\ ListedStatusesDistinct

C5_Witness ==
    /\ AnalyzeFailed
    /\ call.onLineAtCatch
    /\ call.outcome.error.response.present
    /\ call.outcome.error.response.status = 429
    /\ call.result = Rejected(Err("RateLimited"))

\* the dataset is null or has no rows
NoRows(data) ==
    \/ data.tag = "null"
    \/ "rows" \notin DOMAIN data
    \/ data.rows = <<>>

\* the error the preconditions of submit ask for, "none" when they hold
ExpectedPrecondition(query, data, apiKey) ==
    IF Blank(apiKey) THEN "MissingCredential"
    ELSE IF Blank(query) THEN "MissingQuery"
    ELSE IF NoRows(data) THEN "InvalidDataset"
    ELSE "none"

(* C6: a blank credential fails with MissingCredential, otherwise a blank  *)
(* query with MissingQuery, otherwise a null dataset or one without rows   *)
(* with InvalidDataset; such a call issues no request at all and leaves    *)
(* the active endpoint as it was.                                          *)
C6_PreconditionsBeforeIO ==
    (Started /\ ExpectedPrecondition(call.query, call.data, call.apiKey) # "none")
        => /\ Done
           /\ call.result =
                Rejected(Err(ExpectedPrecondition(call.query, call.data, call.apiKey)))
           /\ call.reqs = <<>>
           /\ baseURL = call.startBase

C6_Witness ==
    /\ Done
    /\ ~Blank(call.apiKey) /\ Blank(call.query) /\ call.query # <<>>
    /\ call.result = Rejected(Err("MissingQuery"))
    /\ call.startBase = Fallback

(* C7: a submit with a non-blank credential, a non-blank query and a       *)
(* dataset with empty headers and at least one row fails with              *)
(* InvalidDataset and issues no request.                                   *)
C7_EmptyHeadersRejected ==
    (/\ Started
     /\ ~Blank(call.apiKey) /\ ~Blank(call.query)
     /\ call.data.tag = "data"
     /\ DOMAIN call.data = {"tag", "headers", "rows"}
     /\ call.data.headers = <<>>
     /\ call.data.rows # <<>>)
        => /\ call.result = Rejected(Err("InvalidDataset"))
           /\ call.reqs = <<>>

(* C8: a 2xx answer of /analyze without a body makes submit fail with      *)
(* EmptyResponse; a 2xx answer with a body is returned unchanged.          *)
C8_EmptyResponse ==
    (AnalyzeSettled /\ call.outcome.ok)
        => call.result = IF call.outcome.data.present
                         THEN Resolved(call.outcome.data)
                         ELSE Rejected(Err("EmptyResponse"))

(* C9: a submit call issues at most one POST /analyze, whatever the answer *)
(* to it and whichever endpoint is active.                                 *)
C9_SingleSend == Cardinality(Sent(call.reqs, PathAnalyze)) <= 1

C9_Witness ==
    /\ AnalyzeFailed
    /\ call.reqs[Len(call.reqs)].base = Fallback
    /\ call.startBase = Primary

\* the file parts of the /analyze requests of the call
FileParts == {call.reqs[i].form.file : i \in Sent(call.reqs, PathAnalyze)}

(* C10, as claimed: the file part data.csv sent to /analyze is the output  *)
(* of convertToCSVLocal on the submitted dataset, whatever the backend     *)
(* answered before the send.                                               *)
C10_FileIsLocalCsv ==
    \A f \in FileParts :
        f.name = "data.csv" /\ f.content = convertToCSVLocal(call.data)

(* C10, amended: the file part data.csv sent to /analyze is the csv text   *)
(* the backend returned for POST /convert-to-csv when that request         *)
(* succeeded with a non-empty csv field, and otherwise the output of       *)
(* convertToCSVLocal on the submitted dataset.                             *)
C10_FileIsBackendOrLocalCsv ==
    \A f \in FileParts :
        /\ f.name = "data.csv"
        /\ f.content =
              IF /\ call.convertOutcome.ok
                 /\ "csv" \in DOMAIN call.convertOutcome.data
                 /\ call.convertOutcome.data.csv # <<>>
              THEN call.convertOutcome.data.csv
              ELSE convertToCSVLocal(call.data)

C10_Witness ==
    /\ AnalyzeSent
    /\ call.convertOutcome.ok
    /\ "csv" \in DOMAIN call.convertOutcome.data
    /\ call.convertOutcome.data.csv = <<>>
    /\ \E f \in FileParts : f.content = convertToCSVLocal(call.data)
    /\ convertToCSVLocal(call.data) # <<>>

-----------------------------------------------------------------------------
(* The upload widget: UploadDataset.tsx, processFile and the two buttons   *)

\* the number of processFile calls of a run
MaxAttempts == 2

CsvError    == "Error processing CSV file. Please check the file format."
ExcelError  == "Error processing Excel file. Please check the file format."
Unsupported == "Unsupported file format. Please upload a CSV, XLSX, or XLS file."

IsCsvName(name) == EndsWith(name, ".csv")
IsSheetName_AlsoTxt(name) ==
    EndsWith(name, ".xlsx") \/ EndsWith(name, ".xls") \/ EndsWith(name, ".txt")
IsSheetName(name) == EndsWith(name, ".xlsx") \/ EndsWith(name, ".xls")

\* a .csv file is its text; a spreadsheet is what XLSX.read and
\* sheet_to_json make of it: a decoder failure, or the rows of its first sheet
CsvFile(name, text)    == [name |-> name, text |-> text]
SheetFile(name, table) == [name |-> name, decodes |-> TRUE, table |-> table]
CorruptFile(name)      == [name |-> name, decodes |-> FALSE]
OtherFile(name)        == [name |-> name]

SheetTable ==
    <<<<StrCell(Chars("h")), StrCell(Chars("k"))>>,
      <<StrCell(Chars("A")), NullCell>>,
      <<NullCell, UndefinedCell>>,
      <<DateCell(3), ObjCell(Chars("[1,2]"))>>,
      <<StrCell(<<>>), StrCell(<<>>)>>,
      <<NumCell(0), BoolCell(FALSE)>>>>

UploadFiles ==
    {CsvFile("empty.csv", <<>>),
     CsvFile("data.csv", Chars("name,value\nA,1\nB,2\n,\n")),
     CsvFile("quoted.csv", Chars("h\n\"a,b\"\n\"\"\nc")),
     SheetFile("book.xlsx", SheetTable),
     SheetFile("blank.xlsx", <<>>),
     CorruptFile("old.xls"),
     OtherFile("report.txt"),
     OtherFile("DATA.CSV")}

\* one processFile call in the log
Attempt(file, decoder, outcome) ==
    [file |-> file, decoder |-> decoder, outcome |-> outcome,
     delivered |-> <<>>, stats |-> [rows |-> 0, columns |-> 0],
     isUploadingAfter |-> TRUE, statusAfter |-> "idle", errorAfter |-> ""]

InitUpload ==
    /\ baseURL = Primary
    /\ navigatorOnLine = TRUE
    /\ call = IdleCall
    /\ servedByFallback = FALSE
    /\ upload = IdleUpload
    /\ pure = IdlePure
    /\ app = IdleApp
    /\ page = IdlePage

\* an attempt ends with a message: setError, setUploadStatus('error'),
\* setIsUploading(false)
FailWith(u, i, message) ==
    [u EXCEPT !.error = message, !.uploadStatus = "error",
              !.isUploading = FALSE,
              !.log[i].outcome = "error", !.log[i].isUploadingAfter = FALSE,
              !.log[i].statusAfter = "error", !.log[i].errorAfter = message]

\* an attempt ends with a dataset: setFileStats, onFileUpload,
\* setUploadStatus('success'), setIsUploading(false)
Deliver(u, i, r) ==
    [u EXCEPT !.fileStats = r.fileStats, !.hasStats = TRUE,
              !.uploadStatus = "success", !.isUploading = FALSE,
              !.log[i].outcome = "success",
              !.log[i].delivered = <<r.fileData>>,
              !.log[i].stats = r.fileStats,
              !.log[i].isUploadingAfter = FALSE,
              !.log[i].statusAfter = "success",
              !.log[i].errorAfter = u.error]

\* processFile(file) up to its first suspension, from a drop or the file input
ProcessFile(file) ==
    /\ Len(upload.log) < MaxAttempts
    /\ LET i == Len(upload.log) + 1
           started == [upload EXCEPT !.isUploading = TRUE,
                                     !.uploadStatus = "idle",
                                     !.error = "", !.fileName = file.name]
       IN  upload' =
             IF IsCsvName(file.name)
             THEN [started EXCEPT !.log = Append(@, Attempt(file, "papa", "pending"))]
             ELSE IF IsSheetName(file.name)
             THEN [started EXCEPT !.log = Append(@, Attempt(file, "xlsx", "pending"))]
             ELSE FailWith([started EXCEPT
                               !.log = Append(@, Attempt(file, "none", "pending"))],
                           i, Unsupported)
    /\ UNCHANGED <<apiVars, pure, app, page>>

\* Papa.parse calls complete(results); what the callback throws is caught
\* by nobody
PapaComplete ==
    \E i \in 1..Len(upload.log) :
        /\ upload.log[i].decoder = "papa"
        /\ upload.log[i].outcome = "pending"
        /\ LET r == PostProcess(PapaParse(upload.log[i].file.text))
           IN  upload' =
                 IF r.threw
                 THEN [upload EXCEPT !.log[i].outcome = "fault",
                                     !.log[i].isUploadingAfter = upload.isUploading,
                                     !.log[i].statusAfter = upload.uploadStatus,
                                     !.log[i].errorAfter = upload.error]
                 ELSE Deliver(upload, i, r)
        /\ UNCHANGED <<apiVars, pure, app, page>>

\* Papa.parse calls error(error): the file could not be read
PapaError ==
    \E i \in 1..Len(upload.log) :
        /\ upload.log[i].decoder = "papa"
        /\ upload.log[i].outcome = "pending"
        /\ upload' = FailWith(upload, i, CsvError)
        /\ UNCHANGED <<apiVars, pure, app, page>>

\* the spreadsheet branch after await file.arrayBuffer(): everything thrown
\* in it is caught by the inner catch
XlsxDone ==
    \E i \in 1..Len(upload.log) :
        /\ upload.log[i].decoder = "xlsx"
        /\ upload.log[i].outcome = "pending"
        /\ LET file == upload.log[i].file
               r == IF file.decodes THEN PostProcess(file.table)
                                    ELSE [threw |-> TRUE]
           IN  upload' = IF r.threw THEN FailWith(upload, i, ExcelError)
                                    ELSE Deliver(upload, i, r)
        /\ UNCHANGED <<apiVars, pure, app, page>>

\* the button Upload Another File
UploadAnother ==
    /\ upload.uploadStatus = "success"
    /\ upload' = [upload EXCEPT !.uploadStatus = "idle", !.fileName = "",
                                !.hasStats = FALSE,
                                !.fileStats = [rows |-> 0, columns |-> 0]]
    /\ UNCHANGED <<apiVars, pure, app, page>>

\* the button Try Again
TryAgain ==
    /\ upload.uploadStatus = "error"
    /\ upload' = [upload EXCEPT !.uploadStatus = "idle", !.error = ""]
    /\ UNCHANGED <<apiVars, pure, app, page>>

NextUpload ==
    \/ \E file \in UploadFiles : ProcessFile(file)
    \/ PapaComplete
    \/ PapaError
    \/ XlsxDone
    \/ UploadAnother
    \/ TryAgain

SpecUpload == InitUpload /\ [][NextUpload]_vars

-----------------------------------------------------------------------------
(* The page: App.tsx with handleQuery, the periodic checkBackendStatus and *)
(* the analysis service it calls                                           *)

AppDetails ==
    {"quota exceeded", "network unreachable upstream",
     "Connection reset by peer", "upstream timeout", "token limit exceeded"}

\* what the backend may answer POST /analyze with
AppAnalyzeOutcomes ==
       {[ok |-> TRUE, data |-> b] :
            b \in {NoBody, [present |-> TRUE, answer |-> "a1"]}}
  \cup {[ok |-> FALSE, error |-> AxiosError("ERR_NETWORK", NoResponse)]}
  \cup {[ok |-> FALSE, error |-> HttpError(502, [detail |-> d])] :
            d \in AppDetails}

\* what GET /health may end with
AppHealthOutcomes ==
    {[ok |-> TRUE],
     [ok |-> FALSE, error |-> AxiosError("ERR_NETWORK", NoResponse)]}

AppDatasets == {FileData(SampleHeaders, <<SampleRow>>)}
AppApiKeys  == {<<>>, <<"s", "k">>}
AppQueries  == {<<"q">>}

\* App mounted
InitApp ==
    /\ baseURL = Primary
    /\ navigatorOnLine = TRUE
    /\ call = IdleCall
    /\ servedByFallback = FALSE
    /\ upload = IdleUpload
    /\ pure = IdlePure
    /\ app = IdleApp
    /\ page = IdlePage

\* onFileUpload={setFileData}
FileUploaded(data) ==
    /\ app' = [app EXCEPT !.fileData = data]
    /\ UNCHANGED <<apiVars, otherVars>>

\* onApiKeyChange={setApiKey}
ApiKeyChanged(apiKey) ==
    /\ app' = [app EXCEPT !.apiKey = apiKey]
    /\ UNCHANGED <<apiVars, otherVars>>

\* handleQuery from setIsLoading(true) to the first await inside
\* analyzeDataWithDeepseek, and on to its end when the call settles at once
StartAnalysis(a, query) ==
    /\ SubmitCall(query, a.fileData, a.apiKey, FALSE)
    /\ LET started == [a EXCEPT !.isLoading = TRUE, !.error = "",
                                !.currentQuery = query, !.pc = "calling"]
       IN  app' = IF call'.pc = "done"
                  THEN Settled(started, call'.result, navigatorOnLine)
                  ELSE started

\* handleQuery(query) up to its first await
HandleQuery(query) ==
    /\ app.pc = "idle"
    /\ call.pc \in {"idle", "done"}
    /\ LET a == [app EXCEPT !.query = query, !.preprobe = <<>>,
                            !.statusAtSubmit = app.backendStatus,
                            !.last = NoRun]
       IN  IF app.fileData = NullData
           THEN /\ app' = [app EXCEPT !.error = NoFile]
                /\ UNCHANGED <<apiVars, otherVars>>
           ELSE IF Trim(app.apiKey) = <<>>
           THEN /\ app' = [app EXCEPT !.error = NoApiKey]
                /\ UNCHANGED <<apiVars, otherVars>>
           ELSE IF app.backendStatus = "offline"
           THEN /\ app' = [a EXCEPT !.pc = "preprobe",
                                    !.preprobe = <<Request(PathHealth, baseURL)>>]
                /\ UNCHANGED <<apiVars, otherVars>>
           ELSE StartAnalysis(a, query)

\* the testBackendConnection of the branch backendStatus === 'offline'
\* resolves
PreProbeResponse(ok) ==
    /\ app.pc = "preprobe"
    /\ LET a == [app EXCEPT !.preprobe = Answered(@, ok)]
       IN  IF ok
           THEN StartAnalysis([a EXCEPT !.backendStatus = "online"], app.query)
           ELSE /\ app' = [a EXCEPT !.error = CannotConnect, !.pc = "idle",
                                    !.last = Run(a, Pending, a.backendStatus,
                                                 CannotConnect, navigatorOnLine)]
                /\ UNCHANGED <<apiVars, otherVars>>

\* checkBackendStatus (on mount and every 30 s) from start to end: online
\* when testBackendConnection or else the fetch of the alternative address
\* succeeds, offline when both fail; it touches nothing but backendStatus
CheckBackendStatus(ok1, ok2) ==
    /\ app' = [app EXCEPT !.backendStatus =
                              IF ok1 \/ ok2 THEN "online" ELSE "offline"]
    /\ UNCHANGED <<apiVars, otherVars>>

NextApp ==
    \/ \E d \in AppDatasets : FileUploaded(d)
    \/ \E k \in AppApiKeys : ApiKeyChanged(k)
    \/ \E q \in AppQueries : HandleQuery(q)
    \/ \E ok \in BOOLEAN : PreProbeResponse(ok)
    \/ \E ok1, ok2 \in BOOLEAN : CheckBackendStatus(ok1, ok2)
    \/ ConvertResponse
    \/ \E out \in AppHealthOutcomes : HealthResponse1(out)
    \/ \E out \in AppHealthOutcomes : HealthResponse2(out)
    \/ \E out \in AppAnalyzeOutcomes : AnalyzeResponse(out)
    \/ ConnectivityChange

SpecApp == InitApp /\ [][NextApp]_vars

-----------------------------------------------------------------------------
(* The page with overlapping handlers: specification SpecPage.  Every      *)
(* handleQuery invocation and every checkBackendStatus invocation is a     *)
(* task of its own that advances from one await to the next; the tasks     *)
(* share the React state of App (app) and api.defaults.baseURL.  The       *)
(* answers of GET /health follow the reachability of the address asked;    *)
(* POST /convert-to-csv is left to the step that follows it, since         *)
(* convertToCSV falls back to the local conversion and never fails.        *)

MaxRuns   == 2    \* handleQuery invocations kept at a time
MaxChecks == 2    \* checkBackendStatus invocations in flight at a time

\* what POST /analyze may end with on an address that is reachable
PageAnalyzeOutcomes ==
    {[ok |-> TRUE, data |-> [present |-> TRUE, answer |-> "a1"]],
     [ok |-> FALSE,
      error |-> HttpError(502, [detail |-> "network unreachable upstream"])],
     [ok |-> FALSE, error |-> HttpError(500, [x |-> 0])]}

\* what any request ends with on an address that is not reachable
Unreachable == [ok |-> FALSE, error |-> AxiosError("ERR_NETWORK", NoResponse)]

\* handleQuery returned before calling analyzeDataWithDeepseek
NotSubmitted == Rejected(Err("NotSubmitted"))

\* a handleQuery invocation: where it waits, the address its pending request
\* went to (the primary once it has ended), and what it ended with
PageRun(pc, base, result) == [pc |-> pc, base |-> base, result |-> result]

\* a run is kept until a later one takes its place: the place of the next
\* run is the first one whose run has ended, or else a new one
Place(runs) ==
    LET ended == {i \in 1..Len(runs) : runs[i].pc = "ended"}
    IN  IF ended # {}
        THEN CHOOSE i \in ended : \A j \in ended : i <= j
        ELSE Len(runs) + 1

Placed(runs, i, r) ==
    IF i <= Len(runs) THEN [runs EXCEPT ![i] = r] ELSE Append(runs, r)

\* App mounted: useEffect has called checkBackendStatus, which waits for
\* its testBackendConnection
InitPage ==
    /\ baseURL = Primary
    /\ navigatorOnLine = TRUE
    /\ call = IdleCall
    /\ servedByFallback = FALSE
    /\ upload = IdleUpload
    /\ pure = IdlePure
    /\ app = IdleApp
    /\ page = [IdlePage EXCEPT !.probing[Primary] = 1]

PageFrame == UNCHANGED <<navigatorOnLine, call, servedByFallback, upload, pure>>

\* onFileUpload={setFileData}, onApiKeyChange={setApiKey}
PageInput ==
    /\ \/ \E d \in AppDatasets : app' = [app EXCEPT !.fileData = d]
       \/ \E k \in {<<"s", "k">>} : app' = [app EXCEPT !.apiKey = k]
    /\ UNCHANGED <<baseURL, page>>
    /\ PageFrame

\* the query form hands a query to onSubmit only while isLoading is false
QueryInputEnabled == ~app.isLoading

\* run i ends: setResult or the catch block, then the finally block
EndRun(a, i, result) ==
    /\ app' = [Settled(a, result, navigatorOnLine) EXCEPT !.last = NoRun]
    /\ page' = [page EXCEPT
                  !.runs = Placed(@, i, PageRun("ended", Primary, result))]

\* handleQuery from setIsLoading(true) to the first await inside
\* analyzeData, as run i
StartRun(a, i, query) ==
    LET started == [a EXCEPT !.isLoading = TRUE, !.error = "",
                             !.currentQuery = query]
        e1 == DeepseekPreconditionError(query, a.fileData, a.apiKey)
        e2 == PreconditionError(query, a.fileData, a.apiKey)
        e  == IF e1.kind # "none" THEN e1 ELSE e2
    IN  IF e.kind # "none"
        THEN EndRun(started, i, Rejected(e))
        ELSE /\ app' = started
             /\ page' = [page EXCEPT
                     !.runs = Placed(@, i, PageRun("convert", baseURL, Pending))]

\* handleQuery(query) up to its first await
PageHandleQuery(query) ==
    /\ QueryInputEnabled
    /\ Place(page.runs) <= MaxRuns
    /\ LET i == Place(page.runs)
       IN  IF app.fileData = NullData
           THEN /\ app' = [app EXCEPT !.error = NoFile]
                /\ page' = [page EXCEPT !.runs =
                       Placed(@, i, PageRun("ended", Primary, NotSubmitted))]
           ELSE IF Trim(app.apiKey) = <<>>
           THEN /\ app' = [app EXCEPT !.error = NoApiKey]
                /\ page' = [page EXCEPT !.runs =
                       Placed(@, i, PageRun("ended", Primary, NotSubmitted))]
           ELSE IF app.backendStatus = "offline"
           THEN /\ app' = app
                /\ page' = [page EXCEPT !.runs =
                       Placed(@, i, PageRun("preprobe", baseURL, Pending))]
           ELSE StartRun(app, i, query)
    /\ UNCHANGED baseURL
    /\ PageFrame

\* the testBackendConnection of the branch backendStatus === 'offline'
\* of run i resolves
PagePreProbe(i, query) ==
    /\ i \in 1..Len(page.runs)
    /\ page.runs[i].pc = "preprobe"
    /\ IF page.runs[i].base \in page.up
       THEN StartRun([app EXCEPT !.backendStatus = "online"], i, query)
       ELSE /\ app' = [app EXCEPT !.error = CannotConnect]
            /\ page' = [page EXCEPT !.runs[i] =
                           PageRun("ended", Primary, NotSubmitted)]
    /\ UNCHANGED baseURL
    /\ PageFrame

\* convertToCSV of run i returns and analyzeData issues its first probe
PageConvert(i) ==
    /\ i \in 1..Len(page.runs)
    /\ page.runs[i].pc = "convert"
    /\ page' = [page EXCEPT !.runs[i] = PageRun("probe1", baseURL, Pending)]
    /\ UNCHANGED <<baseURL, app>>
    /\ PageFrame

\* the first testBackendConnection of run i resolves
PageProbe1(i) ==
    /\ i \in 1..Len(page.runs)
    /\ page.runs[i].pc = "probe1"
    /\ IF page.runs[i].base \in page.up
       THEN /\ page' = [page EXCEPT !.runs[i] = PageRun("send", baseURL, Pending)]
            /\ UNCHANGED baseURL
       ELSE /\ baseURL' = Fallback
            /\ page' = [page EXCEPT !.runs[i] = PageRun("probe2", Fallback, Pending)]
    /\ UNCHANGED app
    /\ PageFrame

\* the second testBackendConnection of run i resolves
PageProbe2(i) ==
    /\ i \in 1..Len(page.runs)
    /\ page.runs[i].pc = "probe2"
    /\ IF page.runs[i].base \in page.up
       THEN /\ page' = [page EXCEPT !.runs[i] = PageRun("send", baseURL, Pending)]
            /\ UNCHANGED app
       ELSE EndRun(app, i,
                Rejected(OuterCatch(
                    HealthCatch(PlainError("Cannot connect to the backend API"),
                                navigatorOnLine),
                    navigatorOnLine)))
    /\ UNCHANGED baseURL
    /\ PageFrame

\* the POST /analyze of run i settles
PageAnalyze(i, out) ==
    /\ i \in 1..Len(page.runs)
    /\ page.runs[i].pc = "send"
    /\ IF page.runs[i].base \in page.up
       THEN out \in PageAnalyzeOutcomes
       ELSE out = Unreachable
    /\ EndRun(app, i, AnalyzeResult(out, navigatorOnLine))
    /\ UNCHANGED baseURL
    /\ PageFrame

ChecksInFlight == page.probing[Primary] + page.probing[Fallback] + page.fetching

\* setInterval(checkBackendStatus, 30000): checkBackendStatus up to its
\* first await
TimerFires ==
    /\ ChecksInFlight < MaxChecks
    /\ page' = [page EXCEPT !.probing[baseURL] = @ + 1]
    /\ UNCHANGED <<baseURL, app>>
    /\ PageFrame

\* a checkBackendStatus that makes the fallback the active endpoint when its
\* first probe fails, as analyzeData does
CheckProbed_SwitchesBase(b) ==
    /\ page.probing[b] > 0
    /\ IF b \in page.up
       THEN /\ app' = [app EXCEPT !.backendStatus = "online"]
            /\ page' = [page EXCEPT !.probing[b] = @ - 1]
            /\ UNCHANGED baseURL
       ELSE /\ page' = [page EXCEPT !.probing[b] = @ - 1,
                                    !.fetching = @ + 1]
            /\ baseURL' = Fallback
            /\ UNCHANGED app
    /\ PageFrame

\* the testBackendConnection of a checkBackendStatus, sent to b, resolves
CheckProbed(b) ==
    /\ page.probing[b] > 0
    /\ IF b \in page.up
       THEN /\ app' = [app EXCEPT !.backendStatus = "online"]
            /\ page' = [page EXCEPT !.probing[b] = @ - 1]
       ELSE /\ page' = [page EXCEPT !.probing[b] = @ - 1,
                                    !.fetching = @ + 1]
            /\ UNCHANGED app
    /\ UNCHANGED baseURL
    /\ PageFrame

\* the fetch of http://127.0.0.1:8000/api/health of a checkBackendStatus
\* settles
CheckFetched ==
    /\ page.fetching > 0
    /\ app' = [app EXCEPT !.backendStatus =
                  IF Fallback \in page.up THEN "online" ELSE "offline"]
    /\ page' = [page EXCEPT !.fetching = @ - 1]
    /\ UNCHANGED baseURL
    /\ PageFrame

\* the backend becomes reachable or unreachable on an address
ReachabilityChange(up) ==
    /\ ~page.settled
    /\ up # page.up
    /\ page' = [page EXCEPT !.up = up]
    /\ UNCHANGED <<baseURL, app>>
    /\ PageFrame

\* from now on the reachability stays as it is
ReachabilitySettles ==
    /\ ~page.settled
    /\ page' = [page EXCEPT !.settled = TRUE]
    /\ UNCHANGED <<baseURL, app>>
    /\ PageFrame

NextPage ==
    \/ PageInput
    \/ \E q \in AppQueries : PageHandleQuery(q)
    \/ \E i \in 1..MaxRuns, q \in AppQueries : PagePreProbe(i, q)
    \/ \E i \in 1..MaxRuns : PageConvert(i)
    \/ \E i \in 1..MaxRuns : PageProbe1(i)
    \/ \E i \in 1..MaxRuns : PageProbe2(i)
    \/ \E i \in 1..MaxRuns, out \in PageAnalyzeOutcomes \cup {Unreachable} :
          PageAnalyze(i, out)
    \/ TimerFires
    \/ \E b \in {Primary, Fallback} : CheckProbed(b)
    \/ CheckFetched
    \/ \E up \in SUBSET {Primary, Fallback} : ReachabilityChange(up)
    \/ ReachabilitySettles

SpecPage == InitPage /\ [][NextPage]_vars

\* the timer keeps firing and every request is answered in the end
SpecPageFair ==
    /\ SpecPage
    /\ WF_vars(TimerFires)
    /\ WF_vars(\E b \in {Primary, Fallback} : CheckProbed(b))
    /\ WF_vars(CheckFetched)
    /\ \A i \in 1..MaxRuns :
          /\ WF_vars(\E q \in AppQueries : PagePreProbe(i, q))
          /\ WF_vars(PageConvert(i))
          /\ WF_vars(PageProbe1(i))
          /\ WF_vars(PageProbe2(i))
          /\ WF_vars(\E out \in PageAnalyzeOutcomes \cup {Unreachable} :
                        PageAnalyze(i, out))

-----------------------------------------------------------------------------
(* Vocabulary of the codec and sanitizer properties *)

Count(s, ch) == Cardinality({i \in 1..Len(s) : s[i] = ch})

RECURSIVE SplitBy(_, _)
SplitBy(s, ch) ==
    LET p == IndexFrom(s, ch, 1)
    IN  IF p = 0 THEN <<s>>
        ELSE <<SubSeq(s, 1, p - 1)>> \o SplitBy(SubSeq(s, p + 1, Len(s)), ch)

HasStringForm(cell) == cell.t \notin {"null", "undefined"}

IsEmptyCell(cell) == cell.t \in {"null", "undefined"} \/ cell = StrCell(<<>>)
AllEmpty(row) == \A j \in 1..Len(row) : IsEmptyCell(row[j])
HasOther(row) == ~AllEmpty(row)

\* field is str wrapped in double quotes with every inner quote doubled
IsQuotedForm(field, str) ==
    /\ Len(field) >= 2
    /\ field[1] = "\"" /\ field[Len(field)] = "\""
    /\ LET inner == SubSeq(field, 2, Len(field) - 1)
       IN  /\ Unescape(inner) = str
           /\ Count(inner, "\"") = 2 * Count(str, "\"")

WrittenAsClaimed(field, cell) ==
    IF ~HasStringForm(cell) THEN field = <<>>
    ELSE LET str == CellStr(cell)
         IN  IF Count(str, ",") > 0 \/ Count(str, "\"") > 0
             THEN IsQuotedForm(field, str)
             ELSE field = str

Encoded == pure.pc \in {"encoded", "parsed"}

(* C19: convertToCSVLocal writes a cell wrapped in double quotes, its inner *)
(* quotes doubled, exactly when the cell's string form holds a comma or a  *)
(* double quote, every other cell as its string form, null and undefined   *)
(* as the empty field (a,b"c gives "a,b""c", plain gives plain); the       *)
(* fields of a row are joined by commas, and the text is the header line   *)
(* and one line per row separated by single newlines, none after the last  *)
(* line.                                                                   *)
C19_EncoderQuoting ==
    Encoded =>
        LET rows  == pure.data.rows
            lines == SplitBy(pure.text, "\n")
        IN  /\ Len(lines) = Len(rows) + 1
            /\ lines[1] = Join(pure.data.headers, <<",">>)
            /\ \A i \in 1..Len(rows) :
                  /\ lines[i + 1] =
                        Join([j \in 1..Len(rows[i]) |-> EncodeCell(rows[i][j])],
                             <<",">>)
                  /\ \A j \in 1..Len(rows[i]) :
                        LET cell == rows[i][j]
                        IN  /\ WrittenAsClaimed(EncodeCell(cell), cell)
                            /\ cell = StrCell(Chars("a,b\"c"))
                                  => EncodeCell(cell) = Chars("\"a,b\"\"c\"")
                            /\ cell = StrCell(Chars("plain"))
                                  => EncodeCell(cell) = Chars("plain")

C19_Witness ==
    /\ Encoded
    /\ pure.data.rows = <<<<StrCell(Chars("a,b\"c")), NullCell>>,
                          <<StrCell(<<"a">>), NumCell(0)>>>>
    /\ pure.text = Chars("h,k\n\"a,b\"\"c\",\na,0")

(* C20: the cell sanitizer is idempotent: for every raw cell x (string,     *)
(* number, boolean, null, undefined, date, nested object or array)         *)
(* sanitize(sanitize(x)) = sanitize(x).                                    *)
C20_SanitizeIdempotent ==
    pure.pc = "twice" => pure.twice = pure.once

C20_Witness ==
    /\ pure.pc = "twice"
    /\ pure.x = DateCell(3)
    /\ pure.once = StrCell(Chars("1970-01-03T00:00:00.000Z"))
    /\ pure.twice = pure.once

ClaimedSanitize(x) ==
    CASE x.t = "date"   -> StrCell(ToISOString(x))
      [] x.t = "object" -> StrCell(x.v)
      [] OTHER          -> x

(* C12: the sanitizer maps a date to its ISO-8601 string and any other     *)
(* object-like value to its JSON text, and leaves every string, number,    *)
(* boolean, null and undefined cell unchanged.                             *)
C12_SanitizerTable ==
    pure.pc \in {"once", "twice"} => pure.once = ClaimedSanitize(pure.x)

\* the string form of a scalar cell; null and undefined have the empty one
StringForm(cell) == IF HasStringForm(cell) THEN CellStr(cell) ELSE <<>>

\* the datasets the round trip is claimed for: at least one header, scalar
\* cells only, and no row that ingestion elides for being empty
RoundTripInput(data) ==
    /\ data.headers # <<>>
    /\ \A i \in 1..Len(data.rows) :
          /\ \A j \in 1..Len(data.rows[i]) : data.rows[i][j].t # "object"
          /\ ~AllEmpty(data.rows[i])

(* C11: for every dataset D with scalar cells and no control characters,   *)
(* reading convertToCSVLocal(D) back through the CSV ingestion path gives  *)
(* a dataset with the headers of D, as many rows as D, and every cell      *)
(* equal to the string form of the corresponding cell of D.                *)
C11_RoundTrip ==
    (pure.pc = "parsed" /\ RoundTripInput(pure.data)) =>
        /\ ~pure.back.threw
        /\ pure.back.fileData.headers = pure.data.headers
        /\ Len(pure.back.fileData.rows) = Len(pure.data.rows)
        /\ \A i \in 1..Len(pure.data.rows) :
              pure.back.fileData.rows[i] =
                  [j \in 1..Len(pure.data.rows[i]) |->
                      StrCell(StringForm(pure.data.rows[i][j]))]

-----------------------------------------------------------------------------
(* Vocabulary of the upload properties *)

\* the rows the decoder of a file produced, header row first
Tokenized(file) ==
    IF "text" \in DOMAIN file THEN PapaParse(file.text) ELSE file.table

Ended(i) == upload.log[i].outcome # "pending"
Succeeded(i) == upload.log[i].outcome = "success"

SupportedName(name) ==
    \/ EndsWith(name, ".csv")
    \/ EndsWith(name, ".xlsx")
    \/ EndsWith(name, ".xls")

(* C13: after ingestion by either path the delivered dataset has no row    *)
(* whose cells are all "", null or undefined; the delivered rows are the   *)
(* (sanitized) tokenized data rows that have at least one other cell, all  *)
(* of them and in their original order; the reported row count is the      *)
(* number of delivered rows.                                               *)
C13_EmptyRowsElided ==
    \A i \in 1..Len(upload.log) :
        Succeeded(i) =>
            LET d    == upload.log[i].delivered[1]
                kept == SelectSeq(Tail(Tokenized(upload.log[i].file)), HasOther)
            IN  /\ \A k \in 1..Len(d.rows) : ~AllEmpty(d.rows[k])
                /\ Len(d.rows) = Len(kept)
                /\ \A k \in 1..Len(kept) :
                      d.rows[k] = [j \in 1..Len(kept[k]) |-> Sanitize(kept[k][j])]
                /\ upload.log[i].stats.rows = Len(d.rows)

C13_Witness ==
    \E i, j \in 1..Len(upload.log) :
        /\ Succeeded(i) /\ upload.log[i].file.name = "data.csv"
        /\ Len(Tokenized(upload.log[i].file)) = 5
        /\ upload.log[i].stats.rows = 2
        /\ Succeeded(j) /\ upload.log[j].file.name = "book.xlsx"
        /\ Len(upload.log[j].delivered[1].rows) = 3

(* C14: every parse attempt whose decoder has reported has ended in        *)
(* exactly one of Success or Error with the widget no longer Uploading,    *)
(* whatever the tokenizer produced (zero rows included); no failure        *)
(* escapes as an unhandled fault.                                          *)
C14_AttemptsEndClassified ==
    \A i \in 1..Len(upload.log) :
        Ended(i) =>
            /\ upload.log[i].outcome \in {"success", "error"}
            /\ upload.log[i].statusAfter = upload.log[i].outcome
            /\ ~upload.log[i].isUploadingAfter

(* C18: processing a file whose name ends in none of .csv, .xlsx, .xls     *)
(* ends at once in Error with the unsupported-format message, invokes      *)
(* neither decoder, delivers no dataset and leaves the widget not          *)
(* Uploading.                                                              *)
C18_UnsupportedFormat ==
    \A i \in 1..Len(upload.log) :
        ~SupportedName(upload.log[i].file.name) =>
            /\ upload.log[i].outcome = "error"
            /\ upload.log[i].statusAfter = "error"
            /\ upload.log[i].errorAfter =
                  "Unsupported file format. Please upload a CSV, XLSX, or XLS file."
            /\ upload.log[i].decoder = "none"
            /\ upload.log[i].delivered = <<>>
            /\ ~upload.log[i].isUploadingAfter

C18_Witness ==
    /\ Len(upload.log) = 2
    /\ upload.log[1].file.name = "report.txt"
    /\ upload.log[1].outcome = "error"
    /\ upload.log[2].file.name = "DATA.CSV"
    /\ upload.uploadStatus = "error"
    /\ upload.error = Unsupported
    /\ ~upload.isUploading

-----------------------------------------------------------------------------
(* Vocabulary of the page properties *)

\* the handleQuery run that ended last called analyzeData, and call is that
\* call
RunSettled == app.last.ended /\ app.last.settled # Pending /\ call.pc = "done"

FailedWithServerMessage ==
    /\ RunSettled
    /\ app.last.settled.status = "error"
    /\ app.last.settled.error.kind = "ServerMessage"

Keywords ==
    {"network", "ECONNREFUSED", "ENOTFOUND", "Connection", "timeout",
     "maximum context length", "token limit"}

RunProbes ==
    app.last.preprobe \o
        (IF app.last.settled = Pending THEN <<>>
         ELSE SelectSeq(call.reqs, LAMBDA r : r.path = PathHealth))

ProbeFailedAt(base) ==
    \E i \in 1..Len(RunProbes) :
        RunProbes[i].base = base /\ RunProbes[i].res = "fail"

(* C16: after a query submission whose request-time probes of both         *)
(* addresses failed BackendStatus is Offline, and after a submission whose *)
(* request-time probe succeeded it is Online.                              *)
C16_StatusFollowsRequestProbes ==
    RunSettled =>
        /\ BothProbesFailed => app.last.statusAfter = "offline"
        /\ AnalyzeSent => app.last.statusAfter = "online"

(* C17: handleQuery reports the backend unreachable only after the primary *)
(* and the fallback address were both probed and both failed during that   *)
(* submission; a submission made while BackendStatus is Offline is not     *)
(* rejected after a single failed probe.                                   *)
C17_UnreachableAfterBothProbes ==
    (app.last.ended /\ app.last.shown = CannotConnect) =>
        /\ ProbeFailedAt(Primary)
        /\ ProbeFailedAt(Fallback)

-----------------------------------------------------------------------------
(* Vocabulary of the probe and endpoint properties *)

IsProbe(r) == r.path = PathHealth

\* the health probes of the call, in the order they were issued
Probes == SelectSeq(call.reqs, IsProbe)

(* C21: testBackendConnection never throws: it returns true exactly when   *)
(* the health request succeeded and false for every failure; one call of   *)
(* analyzeData issues at most two probes, the second only after the first  *)
(* returned false and always against the fallback address, and after two   *)
(* failed probes the call ends without another probe or request.           *)
C21_ProbeNeverThrowsAtMostTwo ==
    /\ \A i \in 1..Len(Probes) :
          Probes[i].res # "pending" =>
              /\ Probes[i].res # "threw"
              /\ (Probes[i].res = "ok") <=> Probes[i].succeeded
    /\ Len(Probes) <= 2
    /\ Len(Probes) = 2 =>
          /\ Probes[1].res = "fail"
          /\ Probes[2].base = Fallback
    /\ BothProbesFailed => (Done /\ ~AnalyzeSent)

C21_Witness ==
    /\ Done
    /\ Len(Probes) = 2
    /\ Probes[1].res = "fail" /\ ~Probes[1].succeeded
    /\ Probes[2].res = "fail" /\ ~Probes[2].succeeded
    /\ Probes[2].base = Fallback

(* C22: the active endpoint is the fallback address only if some earlier   *)
(* probe of the fallback address returned true: after every completed call *)
(* of analyzeData, baseURL = fallback implies that a fallback probe has     *)
(* succeeded before, and a call in which both probes failed leaves baseURL *)
(* as it was when the call started.                                        *)
C22_FallbackOnlyAfterFallbackProbeOk ==
    Done =>
        /\ baseURL = Fallback => call.fallbackProbedOk
        /\ BothProbesFailed => baseURL = call.startBase

-----------------------------------------------------------------------------
(* Vocabulary of the properties of the page with overlapping handlers *)

\* an analysis started by handleQuery has not settled yet
Submitted(r) == r.pc \in {"convert", "probe1", "probe2", "send"}

\* run i ends in this step
EndsNow(i) ==
    /\ i \in 1..Len(page'.runs)
    /\ page'.runs[i].pc = "ended"
    /\ (i > Len(page.runs) \/ page.runs[i] # page'.runs[i])

\* a checkBackendStatus starts, advances or ends in this step
CheckStep == page'.probing # page.probing \/ page'.fetching # page.fetching

\* a checkBackendStatus ends in this step
CheckEnds ==
    page'.probing[Primary] + page'.probing[Fallback] + page'.fetching
        < ChecksInFlight

(* C23: the status converges to the true reachability: once the backend    *)
(* stays reachable on at least one of the two addresses, backendStatus     *)
(* eventually is online and stays online; once both addresses stay         *)
(* unreachable, it eventually is offline and stays offline; for every      *)
(* interleaving of checks and queries, the timer firing again and again.   *)
C23_StatusConverges ==
    /\ [](page.settled /\ page.up # {} => <>[](app.backendStatus = "online"))
    /\ [](page.settled /\ page.up = {} => <>[](app.backendStatus = "offline"))

(* C24: the stored result changes only on a successful response: a run of  *)
(* handleQuery that succeeds stores the response as the result and leaves  *)
(* no error set; a run that fails, for any reason, leaves the result as    *)
(* it was and sets an error message.                                       *)
C24_ResultChangesOnlyOnSuccess ==
    [][/\ \A i \in 1..MaxRuns :
             EndsNow(i) =>
                 IF page'.runs[i].result.status = "ok"
                 THEN /\ app'.result = page'.runs[i].result.body
                      /\ app'.error = ""
                 ELSE /\ app'.result = app.result
                      /\ app'.error # ""
       /\ app'.result # app.result =>
             \E i \in 1..MaxRuns :
                 EndsNow(i) /\ page'.runs[i].result.status = "ok"]_vars

(* C25: checkBackendStatus never changes the active endpoint: a step of a  *)
(* check leaves baseURL, the runs and every field of App but backendStatus *)
(* as they were, baseURL changes only when a first probe of analyzeData    *)
(* has failed, a check that ends leaves the status online or offline, and  *)
(* the status never is checking again once it has left it.                 *)
C25_CheckWritesOnlyStatus ==
    [][/\ CheckStep =>
             /\ baseURL' = baseURL
             /\ page'.runs = page.runs
             /\ [app' EXCEPT !.backendStatus = app.backendStatus] = app
       /\ baseURL' # baseURL =>
             \E i \in 1..Len(page.runs) :
                 /\ page.runs[i].pc = "probe1"
                 /\ page'.runs[i].pc = "probe2"
       /\ CheckEnds => app'.backendStatus \in {"online", "offline"}
       /\ app.backendStatus # "checking" => app'.backendStatus # "checking"]_vars

\* the active endpoint is the fallback, left by a run whose probes both
\* failed; the checks begun since then have ended, the last one with the
\* fetch of the alternative address
C25_Witness ==
    /\ baseURL = Fallback
    /\ ChecksInFlight = 0
    /\ app.backendStatus = "online"
    /\ page.up = {Fallback}
    /\ \E i \in 1..Len(page.runs) :
          /\ page.runs[i].pc = "ended"
          /\ page.runs[i].result =
                Rejected(OuterCatch(
                    HealthCatch(PlainError("Cannot connect to the backend API"),
                                TRUE), TRUE))

(* C26: isLoading tracks the analyses in flight: it is true whenever an    *)
(* analysis started by handleQuery has not settled yet, and false once     *)
(* every started analysis has settled.                                     *)
C26_IsLoadingTracksInFlight ==
    app.isLoading <=> \E i \in 1..Len(page.runs) : Submitted(page.runs[i])

=============================================================================
